---- MODULE Spec2Model ----
(***************************************************************************)
(* A model of pycodex: the process runner, the output parser, the approval *)
(* gate (src/pycodex/utils.py) and the two backend adapters                *)
(* (src/pycodex/codex.py, src/pycodex/gemini.py).                          *)
(*                                                                         *)
(* Text is a sequence of characters, each a one-character string.  A run   *)
(* of characters that holds no backtick, no newline, no whitespace and no  *)
(* '#' may be written as one element ("python"): the code only ever looks  *)
(* for those four kinds of character.  The backtick, which a TLA+ string   *)
(* cannot hold, is the element Tick.  Configuration values (binary names,  *)
(* model names, approval modes) are only ever compared for equality and    *)
(* are plain strings.                                                      *)
(***************************************************************************)
EXTENDS Integers, Sequences, FiniteSets, TLC

VARIABLES
    env,      \* os.environ: variable name -> value, or Unset
    cfg,      \* ~/.pycodex/config.toml, table backend.codex: key -> value, or Unset
    onPath,   \* the binaries that which() / Popen resolve on PATH
    changes,  \* how many times the environment has been changed
    adapter,  \* the backend object: NoAdapter, or its fields
    atInit,   \* what env and cfg were when the adapter was constructed
    pc,       \* where the current operation of the adapter stands
    call,     \* the current operation and its arguments and locals
    cmd,      \* the command line handed to run_subprocess
    tmp,      \* the invocation's last-message temp file
    run,      \* run_subprocess: its position, timeout and return value
    proc,     \* the child process and what it has written
    result,   \* what the operation returned or raised
    spawned,  \* children spawned by the current operation
    asked,    \* confirmation prompts shown by the current operation
    output,   \* parse_code_and_text: its argument
    parsed    \* parse_code_and_text: its return value, or NotParsed

envVars  == <<env, cfg, onPath, changes>>
callVars == <<adapter, atInit, pc, call, tmp, result, asked>>
runVars  == <<cmd, run, proc, spawned>>
textVars == <<output, parsed>>
vars     == <<env, cfg, onPath, changes, adapter, atInit, pc, call, cmd, tmp,
              run, proc, result, spawned, asked, output, parsed>>

----------------------------------------------------------------------------
(* Text *)

Whitespace == {" ", "\n", "\t", "\r"}

\* the backtick character
Tick == "BACKTICK"

\* fence = three backticks (utils.py, line 124)
Fence == <<Tick, Tick, Tick>>

RECURSIVE LStrip(_)
LStrip(s) ==
    IF s # <<>> /\ Head(s) \in Whitespace THEN LStrip(Tail(s)) ELSE s

RECURSIVE RStrip(_)
RStrip(s) ==
    IF s # <<>> /\ s[Len(s)] \in Whitespace
    THEN RStrip(SubSeq(s, 1, Len(s) - 1))
    ELSE s

\* str.strip()
Strip(s) == RStrip(LStrip(s))

\* sep is a prefix of s from position i
MatchAt(s, sep, i) ==
    /\ i + Len(sep) - 1 <= Len(s)
    /\ SubSeq(s, i, i + Len(sep) - 1) = sep

\* str.find(sep): the first position where sep occurs, 0 when it does not
Find(s, sep) ==
    IF \E i \in 1..Len(s) : MatchAt(s, sep, i)
    THEN CHOOSE i \in 1..Len(s) :
            /\ MatchAt(s, sep, i)
            /\ \A j \in 1..(i - 1) : ~MatchAt(s, sep, j)
    ELSE 0

\* str.split(sep): the pieces between the occurrences of sep, scanned left to right
RECURSIVE Split(_, _)
Split(s, sep) ==
    LET i == Find(s, sep) IN
    IF i = 0 THEN <<s>>
    ELSE <<SubSeq(s, 1, i - 1)>> \o Split(SubSeq(s, i + Len(sep), Len(s)), sep)

\* str.split(sep, 1): at most one cut
Split1(s, sep) ==
    LET i == Find(s, sep) IN
    IF i = 0 THEN <<s>>
    ELSE <<SubSeq(s, 1, i - 1), SubSeq(s, i + Len(sep), Len(s))>>

\* ''.join(segs)
RECURSIVE Join(_)
Join(segs) == IF segs = <<>> THEN <<>> ELSE Head(segs) \o Join(Tail(segs))

\* s.startswith('#')
StartsWithHash(s) == s # <<>> /\ Head(s) = "#"

\* a mutant of CodeOfBlock: the language tag is always dropped
CodeOfBlockAlwaysDrop(code_block) ==
    IF Find(code_block, <<"\n">>) # 0
    THEN Split1(code_block, <<"\n">>)[2]
    ELSE code_block

\* the code chosen from the first fenced body (utils.py, lines 130-137)
CodeOfBlock(code_block) ==
    IF Find(code_block, <<"\n">>) # 0
    THEN LET parts      == Split1(code_block, <<"\n">>)
             first_line == parts[1]
             rest       == parts[2]
         IN  IF Strip(first_line) # <<>> /\ ~StartsWithHash(Strip(first_line))
             THEN rest
             ELSE code_block
    ELSE code_block

parse_code_and_text(out) ==
    LET segments == Split(out, Fence) IN
    IF Find(out, Fence) # 0 /\ Len(segments) >= 3
    THEN [code |-> Strip(CodeOfBlock(segments[2])),
          text |-> Strip(Strip(segments[1] \o Join(SubSeq(segments, 3, Len(segments)))))]
    ELSE [code |-> <<>>, text |-> Strip(out)]

----------------------------------------------------------------------------
(* The environment: os.environ, the config file, the executable search path *)

\* os.getenv of a variable that is not set, dict.get of a missing key: None
Unset == "<unset>"

EnvNames == {"PYCODEX_CODEX_CLI", "PYCODEX_GEMINI_CLI", "PYCODEX_CODEX_MODEL",
             "PYCODEX_APPROVAL", "PYCODEX_CODEX_SANDBOX", "PYCODEX_NONINTERACTIVE"}

\* the values the model gives each environment variable
EnvValues(name) ==
    CASE name = "PYCODEX_CODEX_CLI"      -> {"alt"}
      [] name = "PYCODEX_GEMINI_CLI"     -> {"alt"}
      [] name = "PYCODEX_CODEX_MODEL"    -> {"m-env"}
      [] name = "PYCODEX_APPROVAL"       -> {"full-auto", "bogus"}
      [] name = "PYCODEX_CODEX_SANDBOX"  -> {"read-only"}
      [] name = "PYCODEX_NONINTERACTIVE" -> {"1"}

CfgKeys == {"cli", "model", "approval_mode", "sandbox"}

\* the values the model gives each key of [backend.codex]
CfgValues(key) ==
    CASE key = "cli"           -> {"alt"}
      [] key = "model"         -> {"m-cfg"}
      [] key = "approval_mode" -> {"auto-edit"}
      [] key = "sandbox"       -> {"workspace-write"}

Bins == {"codex", "gemini", "alt", "bash"}

\* the arguments the model constructs adapters with
ModelArgs    == {Unset, "m-arg"}
ApprovalArgs == {"suggest", "auto-edit", "full-auto", "bogus"}

\* how many changes of the environment a behaviour holds
MaxChanges == 1

\* a or b, of Python: b when a is None or empty
Or(a, b) == IF a \in {Unset, ""} THEN b ELSE a

\* os.getenv(name, default)
getenv(e, name, default) == IF e[name] = Unset THEN default ELSE e[name]

\* which(cmd) is not None
which(path, c) == c \in path

\* is_noninteractive()
is_noninteractive(e) == getenv(e, "PYCODEX_NONINTERACTIVE", "0") = "1"

SetEnv(name, val) ==
    /\ changes < MaxChanges
    /\ val # env[name]
    /\ env' = [env EXCEPT ![name] = val]
    /\ changes' = changes + 1
    /\ UNCHANGED <<cfg, onPath, callVars, runVars, textVars>>

SetCfg(key, val) ==
    /\ changes < MaxChanges
    /\ val # cfg[key]
    /\ cfg' = [cfg EXCEPT ![key] = val]
    /\ changes' = changes + 1
    /\ UNCHANGED <<env, onPath, callVars, runVars, textVars>>

Install(b) ==
    /\ changes < MaxChanges
    /\ b \notin onPath
    /\ onPath' = onPath \cup {b}
    /\ changes' = changes + 1
    /\ UNCHANGED <<env, cfg, callVars, runVars, textVars>>

Remove(b) ==
    /\ changes < MaxChanges
    /\ b \in onPath
    /\ onPath' = onPath \ {b}
    /\ changes' = changes + 1
    /\ UNCHANGED <<env, cfg, callVars, runVars, textVars>>

----------------------------------------------------------------------------
(* The adapters' constructors *)

NoAdapter == [backend |-> "none"]

\* the sandbox mode in effect (codex.py, line 58)
SandboxMode(e, c) == Or(getenv(e, "PYCODEX_CODEX_SANDBOX", Unset), c["sandbox"])

\* CodexBackend.__init__
CodexInit(e, c, path, model, approval_mode) ==
    LET base_cmd == getenv(e, "PYCODEX_CODEX_CLI", Or(c["cli"], "codex")) IN
    [backend       |-> "codex",
     model         |-> Or(Or(Or(getenv(e, "PYCODEX_CODEX_MODEL", Unset), model),
                             c["model"]), "gpt-5-codex"),
     approval_mode |-> getenv(e, "PYCODEX_APPROVAL",
                              Or(Or(approval_mode, c["approval_mode"]), "suggest")),
     base_cmd      |-> base_cmd,
     available     |-> which(path, base_cmd)]

\* GeminiBackend.__init__
GeminiInit(e, path, model, approval_mode) ==
    LET base_cmd == getenv(e, "PYCODEX_GEMINI_CLI", "gemini") IN
    [backend       |-> "gemini",
     model         |-> model,
     approval_mode |-> approval_mode,
     base_cmd      |-> base_cmd,
     available     |-> which(path, base_cmd)]

NoCall   == [op |-> "none"]
NoFile   == [exists |-> FALSE, data |-> <<>>]
NoProc   == [state |-> "none", out |-> <<>>, err |-> <<>>, returncode |-> 0]
NoRun    == [pc |-> "off", timeout |-> 0, timedOut |-> FALSE, ret |-> <<>>]
NoResult == [kind |-> "none"]
NotParsed == [code |-> <<"?">>, text |-> <<"?">>]

\* the configuration in effect when the adapter is constructed
ConfigOf(a, e, c) ==
    [binary   |-> a.base_cmd,
     model    |-> a.model,
     approval |-> a.approval_mode,
     sandbox  |-> IF a.backend = "codex" THEN SandboxMode(e, c) ELSE Unset]

Construct(backend, model, approval_mode) ==
    /\ adapter = NoAdapter
    /\ adapter' = IF backend = "codex"
                  THEN CodexInit(env, cfg, onPath, model, approval_mode)
                  ELSE GeminiInit(env, onPath, model, approval_mode)
    /\ atInit' = ConfigOf(adapter', env, cfg)
    /\ UNCHANGED <<envVars, pc, call, tmp, result, asked, runVars, textVars>>

----------------------------------------------------------------------------
(* run_subprocess and the child process *)

\* no timeout given: timeout=None
NoTimeout == 0

\* the exit statuses the model gives a child that exits by itself
Statuses == {0, 2}

\* the returncode of a child ended by SIGKILL
Killed == -9

\* what the model lets a child write to a pipe, in one write per pipe
OutTexts == {<<" ">>, <<" ", "e", "\n">>}

TimeoutMsg == <<"Timeout expired">>

\* subprocess.Popen(cmd, ...): the child starts, or the program is not found
RunPopen ==
    /\ run.pc = "popen"
    /\ IF which(onPath, cmd[1])
       THEN /\ proc' = [state |-> "running", out |-> <<>>, err |-> <<>>,
                         returncode |-> 0]
            /\ spawned' = spawned + 1
            /\ run' = [run EXCEPT !.pc = "communicate"]
       ELSE /\ run' = [run EXCEPT !.pc = "raised"]
            /\ UNCHANGED <<proc, spawned>>
    /\ UNCHANGED <<envVars, callVars, cmd, textVars>>

\* the child writes to its standard output or standard error
ChildWrite(stream, text) ==
    /\ proc.state = "running"
    /\ proc[stream] = <<>>
    /\ proc' = [proc EXCEPT ![stream] = text]
    /\ UNCHANGED <<envVars, callVars, cmd, run, spawned, textVars>>

\* the child exits by itself
ChildExit(status) ==
    /\ proc.state = "running"
    /\ proc' = [proc EXCEPT !.state = "exited", !.returncode = status]
    /\ UNCHANGED <<envVars, callVars, cmd, run, spawned, textVars>>

\* proc.communicate(...) returns once the child has exited (lines 58, 63)
RunCommunicate ==
    /\ run.pc = "communicate"
    /\ proc.state = "exited"
    /\ proc' = [proc EXCEPT !.state = "reaped"]
    /\ run' = [run EXCEPT !.pc = "returned",
                          !.ret = <<proc.returncode, proc.out, proc.err>>]
    /\ UNCHANGED <<envVars, callVars, cmd, spawned, textVars>>

\* proc.communicate(timeout=...) raises TimeoutExpired (line 59)
RunTimeoutExpired ==
    /\ run.pc = "communicate"
    /\ run.timeout # NoTimeout
    /\ proc.state = "running"
    /\ run' = [run EXCEPT !.pc = "except", !.timedOut = TRUE]
    /\ UNCHANGED <<envVars, callVars, cmd, proc, spawned, textVars>>

\* a mutant of RunKill: the handler returns without ending the child
RunKillNoKill ==
    /\ run.pc = "except"
    /\ run' = [run EXCEPT !.pc = "returned",
                          !.ret = <<124, proc.out,
                                    IF proc.err = <<>> THEN TimeoutMsg ELSE proc.err>>]
    /\ UNCHANGED <<envVars, callVars, cmd, proc, spawned, textVars>>

\* proc.kill() (line 60): SIGKILL ends a child that has not exited yet
RunKill ==
    /\ run.pc = "except"
    /\ proc' = IF proc.state = "running"
               THEN [proc EXCEPT !.state = "exited", !.returncode = Killed]
               ELSE proc
    /\ run' = [run EXCEPT !.pc = "communicate2"]
    /\ UNCHANGED <<envVars, callVars, cmd, spawned, textVars>>

\* proc.communicate() after the kill, and the return (lines 61-62)
RunReap ==
    /\ run.pc = "communicate2"
    /\ proc.state = "exited"
    /\ proc' = [proc EXCEPT !.state = "reaped"]
    /\ run' = [run EXCEPT !.pc = "returned",
                          !.ret = <<124, proc.out,
                                    IF proc.err = <<>> THEN TimeoutMsg ELSE proc.err>>]
    /\ UNCHANGED <<envVars, callVars, cmd, spawned, textVars>>

\* an error raised by Popen leaves through the caller of run_subprocess: no
\* caller catches it, and codex.py calls run_subprocess before its try block
Unwind ==
    /\ pc = "run"
    /\ run.pc = "raised"
    /\ result' = [kind |-> "OSError"]
    /\ pc' = "idle"
    /\ run' = NoRun
    /\ UNCHANGED <<envVars, adapter, atInit, call, tmp, asked, cmd, proc, spawned,
                   textVars>>

\* run_subprocess(cmd, input_text=..., timeout=...) is entered
StartRun(c, timeout) ==
    /\ cmd' = c
    /\ run' = [pc |-> "popen", timeout |-> timeout, timedOut |-> FALSE, ret |-> <<>>]
    /\ proc' = NoProc

----------------------------------------------------------------------------
(* generate, explain and edit *)

GenOps == {"generate", "explain", "edit"}

\* bytes that do not decode as UTF-8
BadBytes == "INVALID-UTF8"

\* what the model lets the external tool leave in the last-message file
Messages == {<<Tick, Tick, Tick, "\n", "def f(): pass", "\n", Tick, Tick, Tick>>,
             <<BadBytes>>}

Decodable(data) == \A i \in 1..Len(data) : data[i] # BadBytes

Truthy(v) == v \notin {Unset, ""}

\* the command line of _run_exec (codex.py, lines 53-62)
CodexCmd(base_cmd, model, sandbox) ==
    <<base_cmd, "exec">>
    \o (IF Truthy(model) THEN <<"--model", model>> ELSE <<>>)
    \o <<"--color", "never", "--skip-git-repo-check">>
    \o (IF Truthy(sandbox) THEN <<"--sandbox", sandbox>> ELSE <<>>)
    \o <<"--output-last-message", "tmp_path">>

build_cli_command(base_cmd, subcommand, model, approval_mode) ==
    <<base_cmd, subcommand>>
    \o (IF Truthy(model) THEN <<"--model", model>> ELSE <<>>)
    \o (IF Truthy(approval_mode) THEN <<"--approval", approval_mode>> ELSE <<>>)

\* _ensure_available raises
Unavailable(a, path) == ~a.available /\ ~which(path, a.base_cmd)

NotFound(a) == [kind |-> "BackendNotFoundError", binary |-> a.base_cmd]

GenCall(op) ==
    [op |-> op, safe |-> FALSE, mode |-> Unset, nonint |-> FALSE,
     replied |-> FALSE, reply |-> <<>>, resolvable |-> which(onPath, adapter.base_cmd)]

\* err.strip() or out.strip()
Detail(out, err) == IF Strip(err) # <<>> THEN Strip(err) ELSE Strip(out)

\* CodexBackend._run_exec up to its call of run_subprocess (lines 43-64)
CodexRunExec(op) ==
    /\ pc = "idle"
    /\ adapter.backend = "codex"
    /\ call' = GenCall(op)
    /\ asked' = 0
    /\ spawned' = 0
    /\ IF Unavailable(adapter, onPath)
       THEN /\ result' = NotFound(adapter)
            /\ tmp' = NoFile
            /\ UNCHANGED <<pc, cmd, run, proc>>
       ELSE /\ result' = NoResult
            /\ tmp' = [exists |-> TRUE, data |-> <<>>]
            /\ pc' = "run"
            /\ StartRun(CodexCmd(adapter.base_cmd, adapter.model,
                                 SandboxMode(env, cfg)), NoTimeout)
    /\ UNCHANGED <<envVars, adapter, atInit, textVars>>

\* the codex tool writes its last message to the file --output-last-message names
ChildWriteFile(data) ==
    /\ proc.state = "running"
    /\ adapter.backend = "codex"
    /\ call.op \in GenOps
    /\ tmp.exists
    /\ tmp.data = <<>>
    /\ tmp' = [tmp EXCEPT !.data = data]
    /\ UNCHANGED <<envVars, adapter, atInit, pc, call, result, asked, runVars, textVars>>

\* the codex tool removes the file
ChildDeleteFile ==
    /\ proc.state = "running"
    /\ adapter.backend = "codex"
    /\ call.op \in GenOps
    /\ tmp.exists
    /\ tmp' = NoFile
    /\ UNCHANGED <<envVars, adapter, atInit, pc, call, result, asked, runVars, textVars>>

\* CodexBackend._run_exec after run_subprocess has returned (lines 64-81)
CodexRunExecFinish ==
    /\ pc = "run"
    /\ run.pc = "returned"
    /\ adapter.backend = "codex"
    /\ call.op \in GenOps
    /\ LET status   == run.ret[1]
           out      == run.ret[2]
           err      == run.ret[3]
           readable == ~tmp.exists \/ Decodable(tmp.data)
           last_msg == IF tmp.exists THEN tmp.data ELSE out
       IN  /\ tmp' = NoFile
           /\ result' =
                IF ~readable THEN [kind |-> "UnicodeDecodeError"]
                ELSE IF status # 0
                THEN [kind |-> "ExecutionError", status |-> status,
                      detail |-> Detail(out, err)]
                ELSE [kind |-> "CodexResult",
                      code |-> parse_code_and_text(last_msg).code,
                      text |-> parse_code_and_text(last_msg).text,
                      log  |-> cmd]
    /\ pc' = "idle"
    /\ run' = NoRun
    /\ proc' = NoProc
    /\ UNCHANGED <<envVars, adapter, atInit, call, asked, cmd, spawned, textVars>>

\* GeminiBackend._invoke up to its call of run_subprocess (lines 33-38)
GeminiInvoke(op) ==
    /\ pc = "idle"
    /\ adapter.backend = "gemini"
    /\ call' = GenCall(op)
    /\ asked' = 0
    /\ spawned' = 0
    /\ tmp' = NoFile
    /\ IF Unavailable(adapter, onPath)
       THEN /\ result' = NotFound(adapter)
            /\ UNCHANGED <<pc, cmd, run, proc>>
       ELSE /\ result' = NoResult
            /\ pc' = "run"
            /\ StartRun(build_cli_command(adapter.base_cmd, op, adapter.model,
                                          adapter.approval_mode), NoTimeout)
    /\ UNCHANGED <<envVars, adapter, atInit, textVars>>

\* GeminiBackend._invoke after run_subprocess has returned (lines 38-43)
GeminiInvokeFinish ==
    /\ pc = "run"
    /\ run.pc = "returned"
    /\ adapter.backend = "gemini"
    /\ call.op \in GenOps
    /\ LET status == run.ret[1]
           out    == run.ret[2]
           err    == run.ret[3]
       IN  result' =
             IF status # 0
             THEN [kind |-> "ExecutionError", status |-> status,
                   detail |-> Detail(out, err)]
             ELSE [kind |-> "CodexResult",
                   code |-> parse_code_and_text(out).code,
                   text |-> parse_code_and_text(out).text,
                   log  |-> cmd]
    /\ pc' = "idle"
    /\ run' = NoRun
    /\ proc' = NoProc
    /\ UNCHANGED <<envVars, adapter, atInit, call, tmp, asked, cmd, spawned,
                   textVars>>

----------------------------------------------------------------------------
(* exec_command: the approval gate *)

NotApprovedMsg == <<"Command not approved by user">>

ApprovalMsg == <<"Safe execution requires approval in noninteractive mode.">>

\* the command line of exec_shell_command (utils.py, line 75)
ShellCmd == <<"bash", "-lc", "command">>

\* what the user types at the prompt; eof: input() raises EOFError
Replies ==
    [eof : {FALSE}, text : {<<>>, <<"n">>, <<"y">>, <<" ", "Y", "e", "s", " ">>,
                            <<"y", "e", "s", "!">>}]
    \cup [eof : {TRUE}, text : {<<>>}]

\* str.lower() of one character
LowerChar(ch) ==
    CASE ch = "Y" -> "y"
      [] ch = "E" -> "e"
      [] ch = "S" -> "s"
      [] ch = "N" -> "n"
      [] ch = "O" -> "o"
      [] OTHER    -> ch

Lower(s) == [i \in 1..Len(s) |-> LowerChar(s[i])]

\* a mutant of Approved: anything but an explicit no approves
ApprovedUnlessNo(reply) ==
    ~reply.eof /\ Lower(Strip(reply.text)) \notin {<<"n">>, <<"n", "o">>}

\* the answer of approve_action to what the user typed (utils.py, lines 42-46)
Approved(reply) ==
    ~reply.eof /\ Lower(Strip(reply.text)) \in {<<"y">>, <<"y", "e", "s">>}

\* a mutant of GateDecision: suggest mode in a non-interactive context asks
GateDecisionNoRaise(safe, approval_mode, nonint) ==
    IF ~safe \/ approval_mode = "full-auto" THEN "execute"
    ELSE IF approval_mode = "auto-edit" THEN "execute"
    ELSE "ask"

\* a mutant of GateDecision: safe=False does not bypass the gate
GateDecisionIgnoreSafe(safe, approval_mode, nonint) ==
    IF approval_mode = "full-auto" THEN "execute"
    ELSE IF approval_mode = "auto-edit" THEN "execute"
    ELSE IF nonint THEN "raise"
    ELSE "ask"

\* a mutant of GateDecision: only suggest is gated
GateDecisionOnlySuggest(safe, approval_mode, nonint) ==
    IF ~safe \/ approval_mode # "suggest" THEN "execute"
    ELSE IF nonint THEN "raise"
    ELSE "ask"

\* the branches of exec_shell_command (utils.py, lines 80-91)
GateDecision(safe, approval_mode, nonint) ==
    IF ~safe \/ approval_mode = "full-auto" THEN "execute"
    ELSE IF approval_mode = "auto-edit" THEN "execute"
    ELSE IF nonint THEN "raise"
    ELSE "ask"

\* exec_command, and exec_shell_command up to its decision
ExecCommand(safe) ==
    /\ pc = "idle"
    /\ adapter # NoAdapter
    /\ call' = [op |-> "exec_command", safe |-> safe, mode |-> adapter.approval_mode,
                nonint |-> is_noninteractive(env), replied |-> FALSE, reply |-> <<>>,
                resolvable |-> which(onPath, adapter.base_cmd)]
    /\ asked' = 0
    /\ spawned' = 0
    /\ tmp' = NoFile
    /\ LET decision == GateDecision(safe, adapter.approval_mode, is_noninteractive(env))
       IN  CASE decision = "execute" ->
                  /\ result' = NoResult
                  /\ pc' = "run"
                  /\ StartRun(ShellCmd, NoTimeout)
             [] decision = "raise" ->
                  /\ result' = [kind |-> "ExecutionError", message |-> ApprovalMsg]
                  /\ UNCHANGED <<pc, cmd, run, proc>>
             [] decision = "ask" ->
                  /\ result' = NoResult
                  /\ pc' = "approve"
                  /\ UNCHANGED <<cmd, run, proc>>
    /\ UNCHANGED <<envVars, adapter, atInit, textVars>>

\* approve_action, and what exec_shell_command does with its answer
\* (utils.py, lines 39-46 and 91-93)
ApproveAction(reply) ==
    /\ pc = "approve"
    /\ LET prompted == ~is_noninteractive(env)
           approved == prompted /\ Approved(reply)
       IN  /\ asked' = IF prompted THEN asked + 1 ELSE asked
           /\ call' = IF prompted
                      THEN [call EXCEPT !.replied = TRUE, !.reply = reply]
                      ELSE call
           /\ IF approved
              THEN /\ pc' = "run"
                   /\ StartRun(ShellCmd, NoTimeout)
                   /\ UNCHANGED result
              ELSE /\ pc' = "idle"
                   /\ result' = [kind |-> "CommandResult", status_code |-> 125,
                                 output |-> <<>>, error |-> NotApprovedMsg]
                   /\ UNCHANGED <<cmd, run, proc>>
    /\ UNCHANGED <<envVars, adapter, atInit, tmp, spawned, textVars>>

\* exec_command wraps what run_subprocess returned (codex.py, lines 101-102)
ExecCommandFinish ==
    /\ pc = "run"
    /\ run.pc = "returned"
    /\ call.op = "exec_command"
    /\ result' = [kind |-> "CommandResult", status_code |-> run.ret[1],
                  output |-> run.ret[2], error |-> run.ret[3]]
    /\ pc' = "idle"
    /\ run' = NoRun
    /\ proc' = NoProc
    /\ UNCHANGED <<envVars, adapter, atInit, call, tmp, asked, cmd, spawned,
                   textVars>>

----------------------------------------------------------------------------
(* The adapters in a changing environment *)

Init ==
    /\ env = [n \in EnvNames |-> Unset]
    /\ cfg = [k \in CfgKeys |-> Unset]
    /\ onPath = Bins \ {"alt"}
    /\ changes = 0
    /\ adapter = NoAdapter
    /\ atInit = [binary |-> Unset, model |-> Unset, approval |-> Unset,
                 sandbox |-> Unset]
    /\ pc = "idle"
    /\ call = NoCall
    /\ cmd = <<>>
    /\ tmp = NoFile
    /\ run = NoRun
    /\ proc = NoProc
    /\ result = NoResult
    /\ spawned = 0
    /\ asked = 0
    /\ output = <<>>
    /\ parsed = NotParsed

Next ==
    \/ \E n \in EnvNames : \E v \in EnvValues(n) \cup {Unset} : SetEnv(n, v)
    \/ \E k \in CfgKeys : \E v \in CfgValues(k) \cup {Unset} : SetCfg(k, v)
    \/ \E b \in Bins : Install(b)
    \/ \E b \in Bins : Remove(b)
    \/ \E b \in {"codex", "gemini"} : \E m \in ModelArgs : \E a \in ApprovalArgs :
          Construct(b, m, a)
    \/ \E op \in GenOps : CodexRunExec(op)
    \/ \E op \in GenOps : GeminiInvoke(op)
    \/ \E safe \in BOOLEAN : ExecCommand(safe)
    \/ \E r \in Replies : ApproveAction(r)
    \/ RunPopen
    \/ \E stream \in {"out", "err"} : \E text \in OutTexts : ChildWrite(stream, text)
    \/ \E data \in Messages : ChildWriteFile(data)
    \/ ChildDeleteFile
    \/ \E st \in Statuses : ChildExit(st)
    \/ RunCommunicate
    \/ Unwind
    \/ CodexRunExecFinish
    \/ GeminiInvokeFinish
    \/ ExecCommandFinish

Spec == Init /\ [][Next]_vars

----------------------------------------------------------------------------
(* run_subprocess called with a timeout *)

\* the timeouts the model calls run_subprocess with
Timeouts == {NoTimeout, 5}

\* the command lines the model calls run_subprocess with
CmdLines == {ShellCmd, <<"missing">>}

\* run_subprocess(cmd, timeout=timeout) is called
RunSubprocess(c, timeout) ==
    /\ pc = "idle"
    /\ pc' = "run"
    /\ call' = [NoCall EXCEPT !.op = "run_subprocess"]
    /\ result' = NoResult
    /\ spawned' = 0
    /\ StartRun(c, timeout)
    /\ UNCHANGED <<envVars, adapter, atInit, tmp, asked, textVars>>

\* the caller receives the tuple run_subprocess returns
RunSubprocessDone ==
    /\ pc = "run"
    /\ run.pc = "returned"
    /\ call.op = "run_subprocess"
    /\ result' = [kind |-> "InvocationResult", status_code |-> run.ret[1],
                  output |-> run.ret[2], error |-> run.ret[3]]
    /\ pc' = "idle"
    /\ run' = NoRun
    /\ proc' = NoProc
    /\ UNCHANGED <<envVars, adapter, atInit, call, tmp, asked, cmd, spawned,
                   textVars>>

NextRun ==
    \/ \E c \in CmdLines : \E t \in Timeouts : RunSubprocess(c, t)
    \/ RunPopen
    \/ \E stream \in {"out", "err"} : \E text \in OutTexts : ChildWrite(stream, text)
    \/ \E st \in Statuses : ChildExit(st)
    \/ RunCommunicate
    \/ RunTimeoutExpired
    \/ RunKill
    \/ RunReap
    \/ Unwind
    \/ RunSubprocessDone

SpecRun == Init /\ [][NextRun]_vars

----------------------------------------------------------------------------
(* parse_code_and_text on bounded inputs *)

\* the pieces the model builds the parser's input from
Pieces == {Fence, <<Tick>>, <<"\n">>, <<" ">>, <<"#">>, <<"a">>}

\* how many pieces an input holds
MaxPieces == 5

\* "pre\n```python\nprint(1)\n```\npost"
ExampleFenced ==
    <<<<"pre">>, <<"\n">>, Fence, <<"python">>, <<"\n">>, <<"print(1)">>, <<"\n">>,
      Fence, <<"\n">>, <<"post">>>>

\* "```\ndef f(): pass\n```"
ExampleStub == <<Fence, <<"\n">>, <<"def f(): pass">>, <<"\n">>, Fence>>

Examples == {ExampleFenced, ExampleStub}

\* the text the pieces make
RawOutput == Join(output)

\* one more piece of the tool's output
Feed(piece) ==
    /\ parsed = NotParsed
    /\ Len(output) < MaxPieces
    /\ output' = Append(output, piece)
    /\ UNCHANGED <<envVars, callVars, runVars, parsed>>

\* the tool's output is one of the documented examples
LoadExample(e) ==
    /\ parsed = NotParsed
    /\ output = <<>>
    /\ output' = e
    /\ UNCHANGED <<envVars, callVars, runVars, parsed>>

\* code, text = parse_code_and_text(output)
Parse ==
    /\ parsed = NotParsed
    /\ parsed' = parse_code_and_text(RawOutput)
    /\ UNCHANGED <<envVars, callVars, runVars, output>>

NextParse ==
    \/ \E piece \in Pieces : Feed(piece)
    \/ \E e \in Examples : LoadExample(e)
    \/ Parse

SpecParse == Init /\ [][NextParse]_vars

----------------------------------------------------------------------------
(* Properties of the adapters: specification Spec *)

Ops == GenOps \cup {"exec_command"}

KnownModes == {"suggest", "auto-edit", "full-auto"}

\* the replies that say yes, written out
YesReplies == {[eof |-> FALSE, text |-> <<"y">>],
               [eof |-> FALSE, text |-> <<" ", "Y", "e", "s", " ">>]}

Rejection == [kind |-> "CommandResult", status_code |-> 125, output |-> <<>>,
              error |-> NotApprovedMsg]

\* C1: an adapter constructed while its binary was not resolvable, the binary
\* still not resolvable when an operation is called: the operation fails with
\* BackendNotFoundError and spawns no child, for each of generate, explain,
\* edit and exec_command.
C1_UnavailableBackendFails ==
    (call.op \in Ops /\ ~adapter.available /\ ~call.resolvable) =>
        /\ spawned = 0
        /\ asked = 0
        /\ pc = "idle" => result.kind = "BackendNotFoundError"

C3_UnsafeAlwaysExecutes ==
    (call.op = "exec_command" /\ ~call.safe) =>
        /\ asked = 0
        /\ ~call.replied
        /\ spawned <= 1
        /\ pc \in {"run", "idle"}
        /\ pc = "idle" =>
             \/ result.kind = "OSError" /\ spawned = 0
             \/ result.kind = "CommandResult" /\ result # Rejection /\ spawned = 1

C3_Witness ==
    /\ call.op = "exec_command" /\ ~call.safe
    /\ call.mode = "bogus" /\ call.nonint
    /\ pc = "idle"
    /\ result.kind = "CommandResult"
    /\ spawned = 1

\* C4: with safe=true and an approval mode that is none of suggest, auto-edit,
\* full-auto, exec_command behaves as in suggest mode: the command runs only
\* after the prompt was shown and answered yes, a reply that is not yes gives
\* the rejection result, and a non-interactive context fails without running it.
C4_UnknownModeIsSuggest ==
    (call.op = "exec_command" /\ call.safe /\ call.mode \notin KnownModes) =>
        /\ (pc = "run" \/ spawned > 0) =>
              asked = 1 /\ call.replied /\ call.reply \in YesReplies
        /\ (call.replied /\ call.reply \notin YesReplies) =>
              pc = "idle" /\ result = Rejection /\ spawned = 0
        /\ call.nonint =>
              pc = "idle" /\ result.kind = "ExecutionError" /\ spawned = 0

C4_Witness ==
    /\ call.op = "exec_command" /\ call.safe /\ call.mode = "bogus"
    /\ asked = 1
    /\ call.reply \in YesReplies
    /\ spawned = 1

\* C5: exec_command with safe=true, mode suggest, an interactive context and a
\* reply that is not yes (an empty line and end of input included) returns the
\* result with status 125, empty output and the error text "Command not
\* approved by user", and spawns no child.
C5_DeclinedIsRejection ==
    (call.op = "exec_command" /\ call.safe /\ call.mode = "suggest" /\ ~call.nonint
        /\ call.replied /\ call.reply \notin YesReplies) =>
        /\ pc = "idle"
        /\ result.kind = "CommandResult"
        /\ result.status_code = 125
        /\ result.output = <<>>
        /\ result.error = NotApprovedMsg
        /\ spawned = 0

C5_Witness ==
    /\ call.op = "exec_command" /\ call.safe /\ call.mode = "suggest" /\ ~call.nonint
    /\ call.replied /\ call.reply.eof
    /\ result = Rejection
    /\ spawned = 0

\* C6: when generate, explain or edit ends after the child has exited, a
\* non-zero exit status s makes it fail with ExecutionError carrying s and the
\* trimmed standard error, or the trimmed standard output when that is empty;
\* exit status 0 never gives ExecutionError.
C6_NonZeroExitIsExecutionError ==
    [][(pc = "run" /\ run.pc = "returned" /\ call.op \in GenOps /\ pc' = "idle") =>
          LET status == run.ret[1]
              out    == run.ret[2]
              err    == run.ret[3]
          IN  IF status # 0
              THEN result' = [kind |-> "ExecutionError", status |-> status,
                              detail |-> IF Strip(err) = <<>> THEN Strip(out)
                                         ELSE Strip(err)]
              ELSE result'.kind # "ExecutionError"]_vars

\* C7: once generate, explain or edit of the Codex adapter has finished,
\* whether it returned or failed, its last-message temp file no longer exists.
C7_TempFileDeleted ==
    (adapter.backend = "codex" /\ call.op \in GenOps /\ pc = "idle") => ~tmp.exists

\* C10: every command line built and every approval decision taken uses the
\* binary path, model, approval mode and sandbox mode that were in effect when
\* the adapter was constructed, whatever has changed in the environment or the
\* config file since.
C10_ConfigFixedAtConstruction ==
    /\ (adapter.backend = "codex" /\ call.op \in GenOps /\ pc = "run") =>
          cmd = CodexCmd(atInit.binary, atInit.model, atInit.sandbox)
    /\ (adapter.backend = "gemini" /\ call.op \in GenOps /\ pc = "run") =>
          cmd = build_cli_command(atInit.binary, call.op, atInit.model,
                                  atInit.approval)
    /\ call.op = "exec_command" => call.mode = atInit.approval

----------------------------------------------------------------------------
(* Properties of run_subprocess: specification SpecRun *)

\* C8: when the timeout elapses before the child has exited, run_subprocess
\* returns only after the child has ended and been waited for, and it returns
\* status 124, the output the child wrote before it ended, and the child's
\* error text or "Timeout expired" when it wrote none.
C8_TimeoutEndsChild ==
    (run.pc = "returned" /\ run.timedOut) =>
        /\ proc.state = "reaped"
        /\ run.ret[1] = 124
        /\ run.ret[2] = proc.out
        /\ run.ret[3] = IF Len(proc.err) = 0 THEN TimeoutMsg ELSE proc.err

C8_Witness ==
    /\ run.pc = "returned" /\ run.timedOut
    /\ proc.returncode = Killed
    /\ proc.out = <<" ", "e", "\n">>
    /\ run.ret = <<124, <<" ", "e", "\n">>, TimeoutMsg>>

----------------------------------------------------------------------------
(* Properties of parse_code_and_text: specification SpecParse *)

\* the positions of s where three backticks begin
FencesIn(s) ==
    {i \in 1..(Len(s) - 2) : s[i] = Tick /\ s[i + 1] = Tick /\ s[i + 2] = Tick}

NewlinesIn(s) == {i \in 1..Len(s) : s[i] = "\n"}

Least(S) == CHOOSE i \in S : \A j \in S : i <= j

From(s, i) == SubSeq(s, i, Len(s))

\* s without its fence markers, taken from the left
RECURSIVE WithoutFences(_)
WithoutFences(s) ==
    IF FencesIn(s) = {} THEN s
    ELSE SubSeq(s, 1, Least(FencesIn(s)) - 1)
         \o WithoutFences(From(s, Least(FencesIn(s)) + 3))

\* the parts of a text that holds two fence markers: what precedes the first,
\* what lies between the first and the second, what follows the second
HasTwoFences(s) ==
    /\ FencesIn(s) # {}
    /\ FencesIn(From(s, Least(FencesIn(s)) + 3)) # {}

PreOf(s)   == SubSeq(s, 1, Least(FencesIn(s)) - 1)
AfterOf(s) == From(s, Least(FencesIn(s)) + 3)
BodyOf(s)  == PreOf(AfterOf(s))
TailOf(s)  == AfterOf(AfterOf(s))

FirstLineOf(body) == SubSeq(body, 1, Least(NewlinesIn(body)) - 1)
RestOf(body)      == From(body, Least(NewlinesIn(body)) + 1)

\* C9 as amended: on an input with at least two fence markers, code is the
\* trimmed first fenced body, without its first line exactly when the body
\* holds a newline and that first line, once trimmed, is non-empty and does
\* not begin with '#'; text is the trimmed concatenation of the segment before
\* the first fence and all segments after the first fenced body.  The input
\* "pre\n```python\nprint(1)\n```\npost" gives code "print(1)" and text
\* "pre\n\npost".
C9_FirstFencedBlock ==
    (parsed # NotParsed /\ HasTwoFences(RawOutput)) =>
        LET body == BodyOf(RawOutput)
            drop == /\ NewlinesIn(body) # {}
                    /\ Strip(FirstLineOf(body)) # <<>>
                    /\ Head(Strip(FirstLineOf(body))) # "#"
        IN  /\ parsed.code = Strip(IF drop THEN RestOf(body) ELSE body)
            /\ parsed.text = Strip(PreOf(RawOutput) \o WithoutFences(TailOf(RawOutput)))
            /\ output = ExampleFenced =>
                 /\ parsed.code = <<"print(1)">>
                 /\ parsed.text = <<"pre", "\n", "\n", "post">>

\* C9 as claimed: the first line is dropped exactly when it is non-empty and
\* does not begin with '#', and the example input gives text "pre\npost".
C9_AsClaimed ==
    (parsed # NotParsed /\ HasTwoFences(RawOutput)) =>
        LET body == BodyOf(RawOutput)
            drop == /\ NewlinesIn(body) # {}
                    /\ FirstLineOf(body) # <<>>
                    /\ Head(FirstLineOf(body)) # "#"
        IN  /\ parsed.code = Strip(IF drop THEN RestOf(body) ELSE body)
            /\ parsed.text = Strip(PreOf(RawOutput) \o WithoutFences(TailOf(RawOutput)))
            /\ output = ExampleFenced =>
                 /\ parsed.code = <<"print(1)">>
                 /\ parsed.text = <<"pre", "\n", "post">>

C9_Witness ==
    /\ output = ExampleFenced
    /\ parsed.code = <<"print(1)">>
    /\ parsed.text = <<"pre", "\n", "\n", "post">>

====
